---- MODULE Spec2Model ----
(***************************************************************************)
(* Model of SphericalHarmonicsGravityField (Tudat, version 9 of            *)
(* sphericalHarmonicsGravityField.cpp).                                    *)
(*                                                                         *)
(* The class holds its configuration in double and unsigned int members    *)
(* and evaluates the point-mass potential, its gradient and its gradient   *)
(* tensor in double arithmetic.  A double is modelled bit for bit: sign,   *)
(* integer significand and binary exponent of IEEE 754 binary64, with      *)
(* round-to-nearest-even after every operation, signed zeros, subnormals,  *)
(* infinities and NaN.  Significands are arbitrary-precision naturals      *)
(* kept as little-endian sequences of 15-bit limbs.                        *)
(***************************************************************************)
EXTENDS Integers, Sequences, FiniteSets, TLC

(***************************************************************************)
(* Arbitrary-precision naturals.                                           *)
(***************************************************************************)
LimbBits == 15

Base == 2 ^ LimbBits

Max(x, y) == IF x >= y THEN x ELSE y

Min(x, y) == IF x <= y THEN x ELSE y

Limb(a, i) == IF i <= Len(a) THEN a[i] ELSE 0

RECURSIVE BigNorm(_)
BigNorm(a) ==
    IF a = << >> THEN a
    ELSE IF a[Len(a)] = 0 THEN BigNorm(SubSeq(a, 1, Len(a) - 1))
    ELSE a

RECURSIVE BigFromNat(_)
BigFromNat(n) ==
    IF n = 0 THEN << >> ELSE << n % Base >> \o BigFromNat(n \div Base)

RECURSIVE BigAddC(_, _, _, _)
BigAddC(a, b, i, c) ==
    IF i > Len(a) /\ i > Len(b)
    THEN (IF c = 0 THEN << >> ELSE << c >>)
    ELSE LET s == Limb(a, i) + Limb(b, i) + c
         IN  << s % Base >> \o BigAddC(a, b, i + 1, s \div Base)

BigAdd(a, b) == BigAddC(a, b, 1, 0)

RECURSIVE BigSubC(_, _, _, _)
BigSubC(a, b, i, c) ==
    IF i > Len(a) THEN << >>
    ELSE LET d == a[i] - Limb(b, i) - c
         IN  IF d < 0
             THEN << d + Base >> \o BigSubC(a, b, i + 1, 1)
             ELSE << d >> \o BigSubC(a, b, i + 1, 0)

\* a - b for a >= b
BigSub(a, b) == BigNorm(BigSubC(a, b, 1, 0))

RECURSIVE BigCmpAt(_, _, _)
BigCmpAt(a, b, i) ==
    IF i = 0 THEN 0
    ELSE IF a[i] > b[i] THEN 1
    ELSE IF a[i] < b[i] THEN -1
    ELSE BigCmpAt(a, b, i - 1)

\* -1, 0, 1 as a < b, a = b, a > b
BigCmp(a, b) ==
    IF Len(a) > Len(b) THEN 1
    ELSE IF Len(a) < Len(b) THEN -1
    ELSE BigCmpAt(a, b, Len(a))

RECURSIVE BigMulSmallC(_, _, _, _)
BigMulSmallC(a, d, i, c) ==
    IF i > Len(a)
    THEN (IF c = 0 THEN << >> ELSE << c >>)
    ELSE LET p == a[i] * d + c
         IN  << p % Base >> \o BigMulSmallC(a, d, i + 1, p \div Base)

\* a * d for 0 <= d < Base
BigMulSmall(a, d) == IF d = 0 THEN << >> ELSE BigMulSmallC(a, d, 1, 0)

RECURSIVE Zeros(_)
Zeros(n) == IF n = 0 THEN << >> ELSE << 0 >> \o Zeros(n - 1)

\* p * Base^n
BigShiftLimbs(p, n) == IF p = << >> THEN p ELSE Zeros(n) \o p

RECURSIVE BigMulAt(_, _, _)
BigMulAt(a, b, i) ==
    IF i > Len(b) THEN << >>
    ELSE BigAdd(BigShiftLimbs(BigMulSmall(a, b[i]), i - 1),
                BigMulAt(a, b, i + 1))

BigMul(a, b) == IF a = << >> \/ b = << >> THEN << >> ELSE BigMulAt(a, b, 1)

\* a * 2^k
BigShl(a, k) ==
    IF a = << >> THEN a
    ELSE Zeros(k \div LimbBits) \o BigMulSmall(a, 2 ^ (k % LimbBits))

RECURSIVE BigShrAt(_, _, _)
BigShrAt(a, r, i) ==
    IF i > Len(a) THEN << >>
    ELSE << (a[i] \div (2 ^ r))
            + (Limb(a, i + 1) % (2 ^ r)) * (2 ^ (LimbBits - r)) >>
         \o BigShrAt(a, r, i + 1)

\* floor(a / 2^k)
BigShr(a, k) == BigNorm(BigShrAt(a, k % LimbBits, (k \div LimbBits) + 1))

RECURSIVE SmallBitLen(_)
SmallBitLen(n) == IF n = 0 THEN 0 ELSE 1 + SmallBitLen(n \div 2)

BitLen(a) ==
    IF a = << >> THEN 0
    ELSE LimbBits * (Len(a) - 1) + SmallBitLen(a[Len(a)])

BigIsOdd(a) == a # << >> /\ a[1] % 2 = 1

BigOne == << 1 >>

\* The largest d + j with 0 <= j < 2^(k+1) and b * (d + j) <= r, found from
\* the high bit of the quotient limb down.
RECURSIVE BigQuotLimb(_, _, _, _)
BigQuotLimb(r, b, d, k) ==
    IF k < 0 THEN d
    ELSE IF BigCmp(BigMulSmall(b, d + 2 ^ k), r) <= 0
         THEN BigQuotLimb(r, b, d + 2 ^ k, k - 1)
         ELSE BigQuotLimb(r, b, d, k - 1)

\* Long division, one quotient limb per step: <<quotient, remainder>> of
\* floor(a / Base^(i-1)) divided by b, for b > 0.
\* The quotient q extended by the limb d, and what is left of r.
BigDivLimb(q, r, b, d) ==
    << BigNorm(<< d >> \o q), BigSub(r, BigMulSmall(b, d)) >>

\* One step of the division: the next limb of the dividend is brought down
\* to the remainder of the limbs above it.
BigDivStep(limb, high, b) ==
    BigDivLimb(high[1], BigNorm(<< limb >> \o high[2]), b,
               BigQuotLimb(BigNorm(<< limb >> \o high[2]), b, 0,
                           LimbBits - 1))

RECURSIVE BigDivHigh(_, _, _)
BigDivHigh(a, b, i) ==
    IF i > Len(a) THEN << << >>, << >> >>
    ELSE BigDivStep(a[i], BigDivHigh(a, b, i + 1), b)

BigDivMod(a, b) == BigDivHigh(a, b, 1)

\* Integer square root by shift and subtract: <<root, remainder>>, given the
\* running remainder n, the running root res and the current power of four.
RECURSIVE BigSqrtStep(_, _, _)
RECURSIVE BigSqrtTry(_, _, _, _)
BigSqrtTry(n, res, bit, t) ==
    IF BigCmp(n, t) >= 0
    THEN BigSqrtStep(BigSub(n, t),
                     BigAdd(BigShr(res, 1), BigShl(BigOne, bit)), bit - 2)
    ELSE BigSqrtStep(n, BigShr(res, 1), bit - 2)

BigSqrtStep(n, res, bit) ==
    IF bit < 0 THEN << res, n >>
    ELSE BigSqrtTry(n, res, bit, BigAdd(res, BigShl(BigOne, bit)))

BigSqrtRem(n) ==
    IF n = << >> THEN << << >>, << >> >>
    ELSE BigSqrtStep(n, << >>, 2 * ((BitLen(n) - 1) \div 2))

(***************************************************************************)
(* double: IEEE 754 binary64.  A value is a record with cls "fin", "inf"   *)
(* or "nan"; a finite value is (-1)^neg * m * 2^e with m a natural of at   *)
(* most SignificandBits bits, exactly that many unless e = MinExp          *)
(* (subnormal) or m = 0 (zero, kept with e = 0).  inf and nan keep m = 0   *)
(* and e = 0, nan keeps neg = FALSE, so that equal records are equal bit   *)
(* patterns (one quiet NaN is modelled).                                   *)
(***************************************************************************)
SignificandBits == 53

MinExp == -1074

MaxExp == 971

NaN == [cls |-> "nan", neg |-> FALSE, m |-> << >>, e |-> 0]

Inf(neg) == [cls |-> "inf", neg |-> neg, m |-> << >>, e |-> 0]

Zero(neg) == [cls |-> "fin", neg |-> neg, m |-> << >>, e |-> 0]

IsNaN(a) == a.cls = "nan"

IsInf(a) == a.cls = "inf"

IsZero(a) == a.cls = "fin" /\ a.m = << >>

Finish(neg, m, e) ==
    IF m = << >> THEN Zero(neg)
    ELSE IF e > MaxExp THEN Inf(neg)
    ELSE [cls |-> "fin", neg |-> neg, m |-> m, e |-> e]

\* q, or q + 1 when the part cut off (c is its comparison with one half,
\* sticky says more follows) rounds up, ties going to the even significand.
RoundTie(q, c, sticky) ==
    IF c > 0 \/ (c = 0 /\ (sticky \/ BigIsOdd(q))) THEN BigAdd(q, BigOne)
    ELSE q

\* The significand q after rounding, renormalised when the carry made it
\* one bit too long.
RoundCarry(neg, q, E) ==
    IF BitLen(q) > SignificandBits THEN Finish(neg, BigShr(q, 1), E + 1)
    ELSE Finish(neg, q, E)

\* M rounded at bit shift, q being floor(M / 2^shift).
RoundShift(neg, M, E, sticky, shift, q) ==
    RoundCarry(neg,
               RoundTie(q, BigCmp(BigSub(M, BigShl(q, shift)),
                                  BigShl(BigOne, shift - 1)), sticky),
               E + shift)

RoundAt(neg, M, E, sticky, shift) ==
    IF shift <= 0 THEN Finish(neg, BigShl(M, -shift), E + shift)
    ELSE RoundShift(neg, M, E, sticky, shift, BigShr(M, shift))

\* The double nearest to (-1)^neg * (M + f) * 2^E, ties to even, where
\* 0 <= f < 1 and sticky says f > 0 (then M carries at least two bits more
\* than the significand).
RoundPack(neg, M, E, sticky) ==
    RoundAt(neg, M, E, sticky,
            Max(BitLen(M) - SignificandBits, MinExp - E))

\* The same for a pair <<M, remainder>> of a division or a square root.
RoundQuotient(neg, qr, E) == RoundPack(neg, qr[1], E, qr[2] # << >>)

fpNeg(a) == IF IsNaN(a) THEN a ELSE [a EXCEPT !.neg = ~a.neg]

fpMul(a, b) ==
    IF IsNaN(a) \/ IsNaN(b) THEN NaN
    ELSE IF IsInf(a) \/ IsInf(b)
         THEN (IF IsZero(a) \/ IsZero(b) THEN NaN ELSE Inf(a.neg # b.neg))
    ELSE RoundPack(a.neg # b.neg, BigMul(a.m, b.m), a.e + b.e, FALSE)

\* Beyond this distance of the exponents the smaller operand of a sum is
\* below 2^-10 units in the last place of the larger one.
FarBits == SignificandBits + 11

\* <<sign, magnitude>> of (-1)^na * Ma + (-1)^nb * Mb, c comparing Ma to Mb;
\* an exact zero sum is +0.
SignedSum(na, Ma, nb, Mb, c) ==
    IF na = nb THEN << na, BigAdd(Ma, Mb) >>
    ELSE IF c > 0 THEN << na, BigSub(Ma, Mb) >>
    ELSE IF c < 0 THEN << nb, BigSub(Mb, Ma) >>
    ELSE << FALSE, << >> >>

\* The operands of a + b on a common exponent: <<sign of a, |a|, sign of
\* b, |b|, exponent, sticky>>.  An operand that is FarBits below the other
\* stands as one unit three bits under it, with the sticky bit.
AddNear(a, b, e) ==
    << a.neg, BigShl(a.m, a.e - e), b.neg, BigShl(b.m, b.e - e), e, FALSE >>

AddOperands(a, b) ==
    IF a.e - b.e >= FarBits
    THEN << a.neg, BigShl(a.m, 3), b.neg, BigOne, a.e - 3, TRUE >>
    ELSE IF b.e - a.e >= FarBits
    THEN << a.neg, BigOne, b.neg, BigShl(b.m, 3), b.e - 3, TRUE >>
    ELSE AddNear(a, b, Min(a.e, b.e))

RoundSigned(s, E, sticky) == RoundPack(s[1], s[2], E, sticky)

RoundSum(t) ==
    RoundSigned(SignedSum(t[1], t[2], t[3], t[4], BigCmp(t[2], t[4])),
                t[5], t[6])

fpAdd(a, b) ==
    IF IsNaN(a) \/ IsNaN(b) THEN NaN
    ELSE IF IsInf(a)
         THEN (IF IsInf(b) /\ a.neg # b.neg THEN NaN ELSE a)
    ELSE IF IsInf(b) THEN b
    ELSE IF IsZero(a) /\ IsZero(b) THEN Zero(a.neg /\ b.neg)
    ELSE IF IsZero(a) THEN b
    ELSE IF IsZero(b) THEN a
    ELSE RoundSum(AddOperands(a, b))

fpSub(a, b) == fpAdd(a, fpNeg(b))

\* a / b for finite nonzero a and b, the dividend scaled by 2^k
DivideScaled(a, b, k) ==
    RoundQuotient(a.neg # b.neg, BigDivMod(BigShl(a.m, k), b.m),
                  a.e - b.e - k)

fpDiv(a, b) ==
    IF IsNaN(a) \/ IsNaN(b) THEN NaN
    ELSE IF IsInf(a) THEN (IF IsInf(b) THEN NaN ELSE Inf(a.neg # b.neg))
    ELSE IF IsInf(b) THEN Zero(a.neg # b.neg)
    ELSE IF IsZero(b) THEN (IF IsZero(a) THEN NaN ELSE Inf(a.neg # b.neg))
    ELSE IF IsZero(a) THEN Zero(a.neg # b.neg)
    ELSE DivideScaled(a, b,
                      Max(0, SignificandBits + 3 + BitLen(b.m) - BitLen(a.m)))

\* sqrt of a finite positive a, scaled by 2^k with a.e - k even
SqrtScaled(a, k) ==
    RoundQuotient(FALSE, BigSqrtRem(BigShl(a.m, k)), (a.e - k) \div 2)

SqrtEven(a, k0) == SqrtScaled(a, k0 + ((a.e - k0) % 2))

fpSqrt(a) ==
    IF IsNaN(a) \/ IsZero(a) THEN a
    ELSE IF a.neg THEN NaN
    ELSE IF IsInf(a) THEN a
    ELSE SqrtEven(a, Max(0, 2 * (SignificandBits + 2) - BitLen(a.m)))

\* operator== of double: a NaN equals nothing, the two zeros are equal
fpEq(a, b) ==
    /\ ~IsNaN(a)
    /\ ~IsNaN(b)
    /\ (a = b \/ (IsZero(a) /\ IsZero(b)))

\* |a| < |b| for values that are not NaN
MagLess(a, b) ==
    IF IsInf(a) THEN FALSE
    ELSE IF IsInf(b) THEN TRUE
    ELSE IF IsZero(b) THEN FALSE
    ELSE IF IsZero(a) THEN TRUE
    ELSE IF BitLen(a.m) + a.e # BitLen(b.m) + b.e
         THEN BitLen(a.m) + a.e < BitLen(b.m) + b.e
    ELSE LET e == Min(a.e, b.e)
         IN  BigCmp(BigShl(a.m, a.e - e), BigShl(b.m, b.e - e)) < 0

fpLess(a, b) ==
    /\ ~IsNaN(a)
    /\ ~IsNaN(b)
    /\ ~(IsZero(a) /\ IsZero(b))
    /\ IF a.neg /\ ~b.neg THEN TRUE
       ELSE IF ~a.neg /\ b.neg THEN FALSE
       ELSE IF a.neg THEN MagLess(b, a)
       ELSE MagLess(a, b)

\* conversion of an int to double
FromInt(n) == RoundPack(n < 0, BigFromNat(IF n < 0 THEN -n ELSE n), 0, FALSE)

RECURSIVE BigFromDigits(_)
BigFromDigits(ds) ==
    IF ds = << >> THEN << >>
    ELSE BigAdd(BigMulSmall(BigFromDigits(SubSeq(ds, 1, Len(ds) - 1)), 10),
                BigFromNat(ds[Len(ds)]))

RECURSIVE BigPow10(_)
BigPow10(n) == IF n = 0 THEN BigOne ELSE BigMulSmall(BigPow10(n - 1), 10)

\* D / T for naturals D > 0 and T > 0, correctly rounded
LiteralScaled(neg, D, T, k) ==
    RoundQuotient(neg, BigDivMod(BigShl(D, k), T), -k)

LiteralQuotient(neg, D, T) ==
    LiteralScaled(neg, D, T,
                  Max(0, SignificandBits + 3 + BitLen(T) - BitLen(D)))

\* D * 10^x, correctly rounded
LiteralValue(neg, D, x) ==
    IF D = << >> THEN Zero(neg)
    ELSE IF x >= 0 THEN LiteralQuotient(neg, BigMul(D, BigPow10(x)), BigOne)
    ELSE LiteralQuotient(neg, D, BigPow10(-x))

\* The double a decimal floating literal denotes: the digits before and
\* after the point and the decimal exponent, correctly rounded.
Literal(neg, int, frac, exp) ==
    LiteralValue(neg, BigNorm(BigFromDigits(int \o frac)), exp - Len(frac))

(***************************************************************************)
(* Exact arithmetic on finite doubles, for stating what a result is in     *)
(* real numbers.  A dyadic is a record [neg, m, e] denoting                *)
(* (-1)^neg * m * 2^e with m any natural; no rounding takes place.         *)
(***************************************************************************)
Dy(a) == [neg |-> a.neg, m |-> a.m, e |-> a.e]

DyAbs(x) == [x EXCEPT !.neg = FALSE]

DyNeg(x) == [x EXCEPT !.neg = ~x.neg]

DyMul(x, y) ==
    [neg |-> x.neg # y.neg, m |-> BigMul(x.m, y.m), e |-> x.e + y.e]

DyAdd(x, y) ==
    LET e == Min(x.e, y.e)
        Mx == BigShl(x.m, x.e - e)
        My == BigShl(y.m, y.e - e)
    IN  IF x.neg = y.neg THEN [neg |-> x.neg, m |-> BigAdd(Mx, My), e |-> e]
        ELSE IF BigCmp(Mx, My) >= 0
             THEN [neg |-> x.neg, m |-> BigSub(Mx, My), e |-> e]
        ELSE [neg |-> y.neg, m |-> BigSub(My, Mx), e |-> e]

DySub(x, y) == DyAdd(x, DyNeg(y))

\* x * 2^k
DyScale(x, k) == [x EXCEPT !.e = x.e + k]

DyIsZero(x) == x.m = << >>

\* x <= y
DyLeq(x, y) == LET d == DySub(y, x) IN DyIsZero(d) \/ ~d.neg

(***************************************************************************)
(* Eigen: Vector3d and Matrix3d of doubles, coefficient by coefficient.    *)
(***************************************************************************)
Vec(x, y, z) == << x, y, z >>

\* a - b
VecSub(a, b) == << fpSub(a[1], b[1]), fpSub(a[2], b[2]), fpSub(a[3], b[3]) >>

\* v.squaredNorm( )
squaredNorm(v) ==
    fpAdd(fpAdd(fpMul(v[1], v[1]), fpMul(v[2], v[2])), fpMul(v[3], v[3]))

\* v.norm( )
norm(v) == fpSqrt(squaredNorm(v))

\* identityMatrix_.setIdentity( 3, 3 )
identityMatrix ==
    << << FromInt(1), FromInt(0), FromInt(0) >>,
       << FromInt(0), FromInt(1), FromInt(0) >>,
       << FromInt(0), FromInt(0), FromInt(1) >> >>

\* mathematics::raiseToIntegerPower: the base multiplied into 1.0,
\* integerPower times.
RECURSIVE raiseToIntegerPower(_, _)
raiseToIntegerPower(baseValue, integerPower) ==
    IF integerPower = 0 THEN FromInt(1)
    ELSE fpMul(raiseToIntegerPower(baseValue, integerPower - 1), baseValue)

(***************************************************************************)
(* The values the model presents to the class.                             *)
(***************************************************************************)
One == FromInt(1)

Two == FromInt(2)

Three == FromInt(3)

\* WGS-84 equatorial radius, and twice it
EarthRadius == 6378137

\* query positions
Positions ==
    { Vec(FromInt(1), FromInt(2), FromInt(3)),
      Vec(FromInt(2), FromInt(4), FromInt(6)),
      Vec(Literal(FALSE, << 0 >>, << 1 >>, 0),
          Literal(FALSE, << 0 >>, << 7 >>, 0), FromInt(0)),
      Vec(FromInt(2 * EarthRadius), FromInt(0), FromInt(0)) }

ZeroVector == Vec(FromInt(0), FromInt(0), FromInt(0))

\* positions of the origin of the gravity field
Origins == { ZeroVector, Vec(FromInt(3), FromInt(6), FromInt(9)) }

\* what a member that no constructor initializes may hold
IndeterminateDoubles == { Zero(TRUE), One, Three }

IndeterminateVectors == { ZeroVector, Vec(FromInt(1), FromInt(2), FromInt(3)) }

\* arguments of setReferenceRadius
ReferenceRadii == { FromInt(-1), FromInt(EarthRadius) }

\* arguments of setDegreeOfExpansion and setOrderOfExpansion
ExpansionLimits == { 2 }

BodiesWithPredefinedSphericalHarmonicsGravityFields ==
    { "earthWorldGeodeticSystem72", "earthWorldGeodeticSystem84" }

\* an enumeration value that names no body
unknownBody == "unknownBody"

BodyArguments ==
    BodiesWithPredefinedSphericalHarmonicsGravityFields \cup { unknownBody }

(***************************************************************************)
(* SphericalHarmonicsGravityField.  An object is a record of its members;  *)
(* a method is an operator from the object and the arguments to the        *)
(* object after the call (this), the value returned (ret) and the lines    *)
(* written to cerr.                                                        *)
(***************************************************************************)
void == "void"

Returns(obj, value) == [this |-> obj, ret |-> value, cerr |-> << >>]

\* default constructor: the members it names are set to -0 and -0.0; the
\* gravitational parameter and the relative position are not named, the
\* origin starts as the zero vector
SphericalHarmonicsGravityField(gravitationalParameter, relativePosition) ==
    [ gravitationalParameter_ |-> gravitationalParameter,
      positionOfOrigin_ |-> ZeroVector,
      relativePosition_ |-> relativePosition,
      degreeOfExpansion_ |-> 0,
      orderOfExpansion_ |-> 0,
      referenceRadius_ |-> Zero(TRUE),
      j2SphericalHarmonicsGravityFieldCoefficient_ |-> Zero(TRUE),
      j3SphericalHarmonicsGravityFieldCoefficient_ |-> Zero(TRUE),
      j4SphericalHarmonicsGravityFieldCoefficient_ |-> Zero(TRUE) ]

\* the assignments of case earthWorldGeodeticSystem72
earthWorldGeodeticSystem72 ==
    [ gravitationalParameter_ |->
          Literal(FALSE, << 3, 9, 8, 6, 0, 0 >>, << 8 >>, 9),
      referenceRadius_ |->
          Literal(FALSE, << 6, 3, 7, 8 >>, << 1, 3, 5 >>, 3),
      j2SphericalHarmonicsGravityFieldCoefficient_ |->
          Literal(FALSE, << 0 >>, << 0, 0, 1, 0, 8, 2, 6, 1, 6 >>, 0),
      j3SphericalHarmonicsGravityFieldCoefficient_ |->
          Literal(TRUE, << 0 >>, << 0, 0, 0, 0, 0, 2, 5, 3, 8, 8, 1 >>, 0),
      j4SphericalHarmonicsGravityFieldCoefficient_ |->
          Literal(TRUE, << 0 >>, << 0, 0, 0, 0, 0, 1, 6, 5, 5, 9, 7 >>, 0) ]

\* the assignments of case earthWorldGeodeticSystem84
earthWorldGeodeticSystem84 ==
    [ gravitationalParameter_ |->
          Literal(FALSE, << 3, 9, 8, 6, 0, 0 >>, << 4, 4, 1, 8 >>, 9),
      referenceRadius_ |->
          Literal(FALSE, << 6, 3, 7, 8 >>, << 1, 3, 7 >>, 3),
      j2SphericalHarmonicsGravityFieldCoefficient_ |->
          Literal(FALSE, << 0 >>,
                  << 0, 0, 1, 0, 8, 2, 6, 2, 9, 9, 8, 9, 0, 5 >>, 0),
      j3SphericalHarmonicsGravityFieldCoefficient_ |->
          Literal(TRUE, << 0 >>,
                  << 0, 0, 0, 0, 0, 2, 5, 3, 2, 1, 5, 3, 0, 6 >>, 0),
      j4SphericalHarmonicsGravityFieldCoefficient_ |->
          Literal(TRUE, << 0 >>,
                  << 0, 0, 0, 0, 0, 1, 6, 1, 0, 9, 8, 7, 6, 1 >>, 0) ]

\* the five assignments of a case of the switch
assignSettings(obj, settings) ==
    [obj EXCEPT
        !.gravitationalParameter_ = settings.gravitationalParameter_,
        !.referenceRadius_ = settings.referenceRadius_,
        !.j2SphericalHarmonicsGravityFieldCoefficient_ =
            settings.j2SphericalHarmonicsGravityFieldCoefficient_,
        !.j3SphericalHarmonicsGravityFieldCoefficient_ =
            settings.j3SphericalHarmonicsGravityFieldCoefficient_,
        !.j4SphericalHarmonicsGravityFieldCoefficient_ =
            settings.j4SphericalHarmonicsGravityFieldCoefficient_]

desiredFieldDoesNotExist ==
    "Desired predefined spherical harmonics gravity field does not exist."

(***************************************************************************)
(* Faulty variants of the methods.  None of them is part of the class:     *)
(* each is a slip the source could have made, and the properties below     *)
(* are meant to tell the class from it.                                    *)
(***************************************************************************)
\* the switch without its default case: an unknown body is taken for WGS-84
settingsWithoutDefaultCase(obj, body) ==
    CASE body = "earthWorldGeodeticSystem72" ->
            Returns(assignSettings(obj, earthWorldGeodeticSystem72), void)
      [] OTHER ->
            Returns(assignSettings(obj, earthWorldGeodeticSystem84), void)

\* the switch without the break of its first case: the assignments of
\* WGS-72 run on into those of WGS-84
settingsWithoutBreak(obj, body) ==
    CASE body = "earthWorldGeodeticSystem72" ->
            Returns(assignSettings(assignSettings(obj, earthWorldGeodeticSystem72),
                                   earthWorldGeodeticSystem84), void)
      [] body = "earthWorldGeodeticSystem84" ->
            Returns(assignSettings(obj, earthWorldGeodeticSystem84), void)
      [] OTHER ->
            [this |-> obj, ret |-> void,
             cerr |-> << desiredFieldDoesNotExist >>]

\* setOrderOfExpansion assigning the member of its neighbour
setOrderIntoDegree(obj, orderOfExpansion) ==
    Returns([obj EXCEPT !.degreeOfExpansion_ = orderOfExpansion], void)

\* the difference stored in the origin instead of the relative position
computeIntoPositionOfOrigin(obj, pointerToPosition) ==
    [obj EXCEPT !.positionOfOrigin_ =
                    VecSub(pointerToPosition, obj.positionOfOrigin_)]

\* the position taken relative to the zero point of the frame
relativePositionFromFrameZero(obj, pointerToPosition) ==
    [obj EXCEPT !.relativePosition_ = pointerToPosition]

\* the relative position left as the previous call set it
keepRelativePosition(obj, pointerToPosition) == obj

\* the potential over the square of the distance
potentialOverSquaredNorm(gravitationalParameter, relativePosition) ==
    fpDiv(gravitationalParameter, squaredNorm(relativePosition))

\* the potential over the reference radius
returnPotentialOverReferenceRadius(obj) ==
    fpDiv(obj.gravitationalParameter_, obj.referenceRadius_)

\* the tensor with 2.0 for the factor 3.0 of the outer product
gradientTensorEntryWithFactorTwo(factor, squared, relativePosition, i, j) ==
    fpMul(factor,
          fpSub(fpMul(fpMul(Two, relativePosition[i]), relativePosition[j]),
                fpMul(squared, identityMatrix[i][j])))

(***************************************************************************)
(* The methods.                                                            *)
(***************************************************************************)
setPredefinedSphericalHarmonicsGravityFieldSettings(obj, body) ==
    CASE body = "earthWorldGeodeticSystem72" ->
            Returns(assignSettings(obj, earthWorldGeodeticSystem72), void)
      [] body = "earthWorldGeodeticSystem84" ->
            Returns(assignSettings(obj, earthWorldGeodeticSystem84), void)
      [] OTHER ->
            [this |-> obj, ret |-> void,
             cerr |-> << desiredFieldDoesNotExist >>]

setReferenceRadius(obj, referenceRadius) ==
    Returns([obj EXCEPT !.referenceRadius_ = referenceRadius], void)

setDegreeOfExpansion(obj, degreeOfExpansion) ==
    Returns([obj EXCEPT !.degreeOfExpansion_ = degreeOfExpansion], void)

setOrderOfExpansion(obj, orderOfExpansion) ==
    Returns([obj EXCEPT !.orderOfExpansion_ = orderOfExpansion], void)

getReferenceRadius(obj) == Returns(obj, obj.referenceRadius_)

\* the stored integer, returned as a double
getDegreeOfExpansion(obj) == Returns(obj, FromInt(obj.degreeOfExpansion_))

getOrderOfExpansion(obj) == Returns(obj, FromInt(obj.orderOfExpansion_))

\* GravityFieldModel::setOrigin
setOrigin(obj, origin) ==
    Returns([obj EXCEPT !.positionOfOrigin_ = origin], void)

\* GravityFieldModel::getGravitationalParameter and GravityFieldModel::getOrigin
getGravitationalParameter(obj) == Returns(obj, obj.gravitationalParameter_)

getOrigin(obj) == Returns(obj, obj.positionOfOrigin_)

endl == "endl"

\* operator<<: what is inserted into the stream, in order; the text a
\* value is printed as is the stream's matter
streamInsertions(obj) ==
    Returns(obj,
            << "This is a SphericalHarmonicsGravityField object.", endl,
               "The gravitational parameter is set to: ",
               getGravitationalParameter(obj).ret, endl,
               "The origin of the gravity field is set to: ",
               getOrigin(obj).ret, endl,
               "The degree of expansion of the spherical harmonics series is ",
               "set to : ", getDegreeOfExpansion(obj).ret, endl,
               "The order of expansion of the spherical harmonics series is ",
               "set to: ", getOrderOfExpansion(obj).ret, endl,
               "The reference radius is set to: ",
               getReferenceRadius(obj).ret, endl >>)

(***************************************************************************)
(* Evaluation.  Each method first assigns relativePosition_, then          *)
(* evaluates its return expression, which reads the members.  The values   *)
(* of the three return expressions over the arguments the model presents   *)
(* are tabulated once; an argument outside the table is computed in        *)
(* place.                                                                  *)
(***************************************************************************)
\* relativePosition_.state = pointerToPosition->state - positionOfOrigin_.state
computeRelativePosition(obj, pointerToPosition) ==
    [obj EXCEPT !.relativePosition_ =
                    VecSub(pointerToPosition, obj.positionOfOrigin_)]

potentialExpression(gravitationalParameter, relativePosition) ==
    fpDiv(gravitationalParameter, norm(relativePosition))

gradientExpression(gravitationalParameter, relativePosition) ==
    LET numeratorFactor == fpNeg(gravitationalParameter)
        denominator == raiseToIntegerPower(norm(relativePosition), 3)
    IN  << fpDiv(fpMul(numeratorFactor, relativePosition[1]), denominator),
           fpDiv(fpMul(numeratorFactor, relativePosition[2]), denominator),
           fpDiv(fpMul(numeratorFactor, relativePosition[3]), denominator) >>

gradientTensorEntry(factor, squared, relativePosition, i, j) ==
    fpMul(factor,
          fpSub(fpMul(fpMul(Three, relativePosition[i]), relativePosition[j]),
                fpMul(squared, identityMatrix[i][j])))

gradientTensorRow(factor, squared, relativePosition, i) ==
    << gradientTensorEntry(factor, squared, relativePosition, i, 1),
       gradientTensorEntry(factor, squared, relativePosition, i, 2),
       gradientTensorEntry(factor, squared, relativePosition, i, 3) >>

gradientTensorExpression(gravitationalParameter, relativePosition) ==
    LET factor == fpDiv(gravitationalParameter,
                        raiseToIntegerPower(norm(relativePosition), 5))
        squared == squaredNorm(relativePosition)
    IN  << gradientTensorRow(factor, squared, relativePosition, 1),
           gradientTensorRow(factor, squared, relativePosition, 2),
           gradientTensorRow(factor, squared, relativePosition, 3) >>

GravitationalParameters ==
    IndeterminateDoubles
    \cup { earthWorldGeodeticSystem72.gravitationalParameter_,
           earthWorldGeodeticSystem84.gravitationalParameter_ }

RelativePositions ==
    IndeterminateVectors \cup { VecSub(p, o) : p \in Positions, o \in Origins }

\* relative positions whose coefficients come from more than one of them
MixedRelativePositions ==
    { Vec(x, y, z) : x \in { FromInt(1), FromInt(2) },
                     y \in { FromInt(2), FromInt(4) },
                     z \in { FromInt(3), FromInt(6) } }

Tabulated ==
    GravitationalParameters \X (RelativePositions \cup MixedRelativePositions)

potentialTable ==
    { << a, potentialExpression(a[1], a[2]) >> : a \in Tabulated }

gradientTable ==
    { << a, gradientExpression(a[1], a[2]) >> : a \in Tabulated }

gradientTensorTable ==
    { << a, gradientTensorExpression(a[1], a[2]) >> : a \in Tabulated }

FromTable(table, a) == (CHOOSE t \in table : t[1] = a)[2]

\* return gravitationalParameter_ / relativePosition_.state.norm( )
returnPotential(obj) ==
    LET a == << obj.gravitationalParameter_, obj.relativePosition_ >>
    IN  IF a \in Tabulated THEN FromTable(potentialTable, a)
        ELSE potentialExpression(a[1], a[2])

\* return -gravitationalParameter_ * relativePosition_.state
\*        / raiseToIntegerPower( relativePosition_.state.norm( ), 3 )
returnGradientOfPotential(obj) ==
    LET a == << obj.gravitationalParameter_, obj.relativePosition_ >>
    IN  IF a \in Tabulated THEN FromTable(gradientTable, a)
        ELSE gradientExpression(a[1], a[2])

\* return gravitationalParameter_
\*        / raiseToIntegerPower( relativePosition_.state.norm( ), 5 )
\*        * ( ( 3.0 * relativePosition_.state
\*              * relativePosition_.state.transpose( ) )
\*            - ( relativePosition_.state.squaredNorm( ) * identityMatrix_ ) )
returnGradientTensorOfPotential(obj) ==
    LET a == << obj.gravitationalParameter_, obj.relativePosition_ >>
    IN  IF a \in Tabulated THEN FromTable(gradientTensorTable, a)
        ELSE gradientTensorExpression(a[1], a[2])

getPotential(obj, pointerToPosition) ==
    LET obj1 == computeRelativePosition(obj, pointerToPosition)
    IN  Returns(obj1, returnPotential(obj1))

getGradientOfPotential(obj, pointerToPosition) ==
    LET obj1 == computeRelativePosition(obj, pointerToPosition)
    IN  Returns(obj1, returnGradientOfPotential(obj1))

getGradientTensorOfPotential(obj, pointerToPosition) ==
    LET obj1 == computeRelativePosition(obj, pointerToPosition)
    IN  Returns(obj1, returnGradientTensorOfPotential(obj1))

(***************************************************************************)
(* One object and its caller.  this is the object, cerr the lines written  *)
(* to the error stream; call and ret record the last call made and the     *)
(* value it returned.  threads holds the threads that are inside an        *)
(* evaluation method of the object; the single caller of Spec has none.    *)
(***************************************************************************)
VARIABLES this, cerr, call, ret, threads

vars == << this, cerr, call, ret, threads >>

Threads == { "A", "B" }

outside ==
    [pc |-> "outside", op |-> void, position |-> void, coefficient |-> 1,
     result |-> void]

\* lines of cerr the model follows
MaxCerrLines == 1

noCall == [op |-> "constructor", arg |-> void]

Init ==
    /\ \E g \in IndeterminateDoubles, r \in IndeterminateVectors :
           this = SphericalHarmonicsGravityField(g, r)
    /\ cerr = << >>
    /\ call = noCall
    /\ ret = void
    /\ threads = [t \in Threads |-> outside]

\* the caller makes the call op(arg), whose outcome is result
Complete(op, arg, result) ==
    /\ this' = result.this
    /\ cerr' = cerr \o result.cerr
    /\ call' = [op |-> op, arg |-> arg]
    /\ ret' = result.ret
    /\ UNCHANGED threads

CallSetPredefinedSettings ==
    \E body \in BodyArguments :
        /\ body = unknownBody => Len(cerr) < MaxCerrLines
        /\ Complete("setPredefinedSphericalHarmonicsGravityFieldSettings", body,
                    setPredefinedSphericalHarmonicsGravityFieldSettings(this, body))

CallSetReferenceRadius ==
    \E referenceRadius \in ReferenceRadii :
        Complete("setReferenceRadius", referenceRadius,
                 setReferenceRadius(this, referenceRadius))

CallSetDegreeOfExpansion ==
    \E degreeOfExpansion \in ExpansionLimits :
        Complete("setDegreeOfExpansion", degreeOfExpansion,
                 setDegreeOfExpansion(this, degreeOfExpansion))

CallSetOrderOfExpansion ==
    \E orderOfExpansion \in ExpansionLimits :
        Complete("setOrderOfExpansion", orderOfExpansion,
                 setOrderOfExpansion(this, orderOfExpansion))

CallSetOrigin ==
    \E origin \in Origins :
        Complete("setOrigin", origin, setOrigin(this, origin))

CallGetReferenceRadius ==
    Complete("getReferenceRadius", void, getReferenceRadius(this))

CallGetDegreeOfExpansion ==
    Complete("getDegreeOfExpansion", void, getDegreeOfExpansion(this))

CallGetOrderOfExpansion ==
    Complete("getOrderOfExpansion", void, getOrderOfExpansion(this))

CallStreamInsertions ==
    Complete("operator<<", void, streamInsertions(this))

CallGetPotential ==
    \E position \in Positions :
        Complete("getPotential", position, getPotential(this, position))

CallGetGradientOfPotential ==
    \E position \in Positions :
        Complete("getGradientOfPotential", position,
                 getGradientOfPotential(this, position))

CallGetGradientTensorOfPotential ==
    \E position \in Positions :
        Complete("getGradientTensorOfPotential", position,
                 getGradientTensorOfPotential(this, position))

Next ==
    \/ CallSetPredefinedSettings
    \/ CallSetReferenceRadius
    \/ CallSetDegreeOfExpansion
    \/ CallSetOrderOfExpansion
    \/ CallSetOrigin
    \/ CallGetReferenceRadius
    \/ CallGetDegreeOfExpansion
    \/ CallGetOrderOfExpansion
    \/ CallStreamInsertions
    \/ CallGetPotential
    \/ CallGetGradientOfPotential
    \/ CallGetGradientTensorOfPotential

Spec == Init /\ [][Next]_vars

(***************************************************************************)
(* Two threads and one object.  No configuration call is made; each thread *)
(* calls one evaluation method.  A method runs as its statements do: the   *)
(* assignment to relativePosition_, which Eigen carries out coefficient by *)
(* coefficient, and then the return statement, which reads the members.    *)
(* The threads share relativePosition_ without synchronization, so the     *)
(* coefficients one thread reads may be those another has written.         *)
(***************************************************************************)
\* the positions the threads query
ThreadPositions ==
    { Vec(FromInt(1), FromInt(2), FromInt(3)),
      Vec(FromInt(2), FromInt(4), FromInt(6)) }

InitConcurrent ==
    /\ \E g \in { One, Three }, r \in IndeterminateVectors :
           this = SphericalHarmonicsGravityField(g, r)
    /\ cerr = << >>
    /\ call = noCall
    /\ ret = void
    /\ threads = [t \in Threads |-> outside]

\* thread t calls the method op with a position
Enter(t) ==
    /\ threads[t].pc = "outside"
    /\ \E op \in { "getPotential", "getGradientOfPotential",
                   "getGradientTensorOfPotential" },
          position \in ThreadPositions :
           threads' = [threads EXCEPT
                          ![t] = [pc |-> "assign", op |-> op,
                                  position |-> position, coefficient |-> 1,
                                  result |-> void]]
    /\ UNCHANGED << this, cerr, call, ret >>

\* thread t assigns the next coefficient of
\* relativePosition_.state = pointerToPosition->state - positionOfOrigin_.state
AssignCoefficient(t) ==
    /\ threads[t].pc = "assign"
    /\ this' = [this EXCEPT
                    !.relativePosition_[threads[t].coefficient] =
                        fpSub(threads[t].position[threads[t].coefficient],
                              this.positionOfOrigin_[threads[t].coefficient])]
    /\ threads' = [threads EXCEPT
                       ![t].pc = IF threads[t].coefficient < 3 THEN "assign"
                                 ELSE "return",
                       ![t].coefficient =
                           IF threads[t].coefficient < 3
                           THEN threads[t].coefficient + 1 ELSE 1]
    /\ UNCHANGED << cerr, call, ret >>

\* what the return statement of the method op evaluates to
returnStatement(op, obj) ==
    CASE op = "getPotential" -> returnPotential(obj)
      [] op = "getGradientOfPotential" -> returnGradientOfPotential(obj)
      [] op = "getGradientTensorOfPotential" ->
            returnGradientTensorOfPotential(obj)

\* thread t evaluates its return statement and leaves the method
Return(t) ==
    /\ threads[t].pc = "return"
    /\ threads' = [threads EXCEPT
                       ![t].pc = "returned",
                       ![t].result = returnStatement(threads[t].op, this)]
    /\ UNCHANGED << this, cerr, call, ret >>

NextConcurrent ==
    \E t \in Threads :
        \/ Enter(t)
        \/ AssignCoefficient(t)
        \/ Return(t)

SpecConcurrent == InitConcurrent /\ [][NextConcurrent]_vars

(***************************************************************************)
(* Properties.                                                             *)
(***************************************************************************)
\* the fields the specification calls the configuration of the model
ConfigurationFields(obj) ==
    << obj.gravitationalParameter_, obj.referenceRadius_,
       obj.j2SphericalHarmonicsGravityFieldCoefficient_,
       obj.j3SphericalHarmonicsGravityFieldCoefficient_,
       obj.j4SphericalHarmonicsGravityFieldCoefficient_,
       obj.degreeOfExpansion_, obj.orderOfExpansion_, obj.positionOfOrigin_ >>

\* what the three getters of the class return
GetterResults(obj) ==
    << getReferenceRadius(obj).ret, getDegreeOfExpansion(obj).ret,
       getOrderOfExpansion(obj).ret >>

EvaluationCalls ==
    { "getPotential", "getGradientOfPotential", "getGradientTensorOfPotential" }

\* the outcome of the evaluation method named op on obj at position
Evaluate(op, obj, position) ==
    CASE op = "getPotential" -> getPotential(obj, position)
      [] op = "getGradientOfPotential" -> getGradientOfPotential(obj, position)
      [] op = "getGradientTensorOfPotential" ->
            getGradientTensorOfPotential(obj, position)

\* C1: a call of setPredefinedSphericalHarmonicsGravityFieldSettings with an
\* identifier that is neither WGS-72 nor WGS-84 leaves every configuration
\* field as it was before the call, and reports the error on cerr.
UnknownBodyLeavesConfiguration ==
    [][ (/\ call'.op = "setPredefinedSphericalHarmonicsGravityFieldSettings"
         /\ call'.arg \notin BodiesWithPredefinedSphericalHarmonicsGravityFields)
        => /\ ConfigurationFields(this') = ConfigurationFields(this)
           /\ cerr' = Append(cerr, desiredFieldDoesNotExist) ]_vars

\* An unknown body was asked for on a model that WGS-84 had configured and
\* whose origin had been moved: the configuration is still there, the error
\* is on cerr.
UnknownBodyAfterConfiguration ==
    /\ call.op = "setPredefinedSphericalHarmonicsGravityFieldSettings"
    /\ call.arg = unknownBody
    /\ cerr = << desiredFieldDoesNotExist >>
    /\ this.gravitationalParameter_
           = earthWorldGeodeticSystem84.gravitationalParameter_
    /\ this.positionOfOrigin_ # ZeroVector
    /\ this.degreeOfExpansion_ = 2

\* the rows of the table of presets of the specification
TabulatedConstants(body) ==
    IF body = "earthWorldGeodeticSystem72"
    THEN << Literal(FALSE, << 3, 9, 8, 6, 0, 0 >>, << 8 >>, 9),
            Literal(FALSE, << 6, 3, 7, 8 >>, << 1, 3, 5 >>, 3),
            Literal(FALSE, << 0 >>, << 0, 0, 1, 0, 8, 2, 6, 1, 6 >>, 0),
            Literal(TRUE, << 0 >>, << 0, 0, 0, 0, 0, 2, 5, 3, 8, 8, 1 >>, 0),
            Literal(TRUE, << 0 >>, << 0, 0, 0, 0, 0, 1, 6, 5, 5, 9, 7 >>, 0) >>
    ELSE << Literal(FALSE, << 3, 9, 8, 6, 0, 0 >>, << 4, 4, 1, 8 >>, 9),
            Literal(FALSE, << 6, 3, 7, 8 >>, << 1, 3, 7 >>, 3),
            Literal(FALSE, << 0 >>,
                    << 0, 0, 1, 0, 8, 2, 6, 2, 9, 9, 8, 9, 0, 5 >>, 0),
            Literal(TRUE, << 0 >>,
                    << 0, 0, 0, 0, 0, 2, 5, 3, 2, 1, 5, 3, 0, 6 >>, 0),
            Literal(TRUE, << 0 >>,
                    << 0, 0, 0, 0, 0, 1, 6, 1, 0, 9, 8, 7, 6, 1 >>, 0) >>

PresetFields(obj) ==
    << obj.gravitationalParameter_, obj.referenceRadius_,
       obj.j2SphericalHarmonicsGravityFieldCoefficient_,
       obj.j3SphericalHarmonicsGravityFieldCoefficient_,
       obj.j4SphericalHarmonicsGravityFieldCoefficient_ >>

\* C2: when setPredefinedSphericalHarmonicsGravityFieldSettings(p) has
\* returned for a recognized preset p, whatever the state before,
\* gravitationalParameter, referenceRadius, J2, J3 and J4 are all five the
\* constants of the row of p.
PresetStampsItsRow ==
    (/\ call.op = "setPredefinedSphericalHarmonicsGravityFieldSettings"
     /\ call.arg \in BodiesWithPredefinedSphericalHarmonicsGravityFields)
    => PresetFields(this) = TabulatedConstants(call.arg)

\* WGS-72 was stamped in on a model that no longer held the radius of
\* either preset in its other fields: degree and origin had been set.
PresetAfterOtherCalls ==
    /\ call.op = "setPredefinedSphericalHarmonicsGravityFieldSettings"
    /\ call.arg = "earthWorldGeodeticSystem72"
    /\ this.referenceRadius_ = TabulatedConstants(call.arg)[2]
    /\ this.degreeOfExpansion_ = 2
    /\ this.positionOfOrigin_ # ZeroVector

\* C3: setReferenceRadius, setDegreeOfExpansion and setOrderOfExpansion each
\* assign the value passed, whatever it is, to their own field and leave
\* every other field of the model, and cerr, as they were.
SettersChangeOnlyTheirField ==
    [][ /\ call'.op = "setReferenceRadius"
           => /\ this' = [this EXCEPT !.referenceRadius_ = call'.arg]
              /\ cerr' = cerr
        /\ call'.op = "setDegreeOfExpansion"
           => /\ this' = [this EXCEPT !.degreeOfExpansion_ = call'.arg]
              /\ cerr' = cerr
        /\ call'.op = "setOrderOfExpansion"
           => /\ this' = [this EXCEPT !.orderOfExpansion_ = call'.arg]
              /\ cerr' = cerr ]_vars

\* The order of expansion was set on a model whose degree was still that of
\* the constructor and whose radius was the negative one a setter accepted.
OrderSetAlone ==
    /\ call.op = "setOrderOfExpansion"
    /\ this.orderOfExpansion_ = 2
    /\ this.degreeOfExpansion_ = 0
    /\ this.referenceRadius_ = FromInt(-1)

\* C4: an evaluation call leaves gravitationalParameter, referenceRadius,
\* degree, order, J2, J3, J4 and the origin as they were, and every getter
\* returns after it what it returned before it; by induction the same holds
\* of any sequence of evaluation calls.
EvaluationLeavesConfiguration ==
    [][ call'.op \in EvaluationCalls
        => /\ ConfigurationFields(this') = ConfigurationFields(this)
           /\ GetterResults(this') = GetterResults(this)
           /\ cerr' = cerr ]_vars

\* An evaluation ran on a configured model and wrote its scratch member.
EvaluationOnConfiguredModel ==
    /\ call.op = "getGradientOfPotential"
    /\ this.referenceRadius_ = earthWorldGeodeticSystem84.referenceRadius_
    /\ this.orderOfExpansion_ = 2
    /\ this.positionOfOrigin_ # ZeroVector
    /\ this.relativePosition_ = VecSub(call.arg, this.positionOfOrigin_)
    /\ this.relativePosition_ \notin IndeterminateVectors

\* the doubles 398600441800000.0 and (2 * 6378137.0, 0, 0)
ClaimedGravitationalParameter ==
    Literal(FALSE, << 3, 9, 8, 6, 0, 0, 4, 4, 1, 8, 0, 0, 0, 0, 0 >>, << >>, 0)

TwoRadiiAlongX == Vec(FromInt(2 * EarthRadius), FromInt(0), FromInt(0))

\* Relative tolerance of a comparison "within floating tolerance": 2^-45,
\* some hundred units in the last place of a double.
ToleranceBits == SignificandBits - 8

DyEq(x, y) == DyIsZero(DySub(x, y))

\* |x - y| <= 2^-ToleranceBits * |scale|
DyClose(x, y, scale) ==
    DyLeq(DyAbs(DySub(x, y)), DyScale(DyAbs(scale), -ToleranceBits))

\* WGS-84 has just been stamped in on a model whose origin is (0,0,0)
JustConfiguredWGS84 ==
    /\ call.op = "setPredefinedSphericalHarmonicsGravityFieldSettings"
    /\ call.arg = "earthWorldGeodeticSystem84"
    /\ this.positionOfOrigin_ = ZeroVector

\* C6, as the claim states it: after WGS-84 on a model with origin (0,0,0),
\* getReferenceRadius() returns exactly 6378137.0 and getPotential at
\* (2*6378137.0, 0, 0) returns 398600441800000 / 6378137.0 (here: within
\* floating tolerance of it).
WGS84PotentialOverOneRadius ==
    [][ JustConfiguredWGS84
        => /\ call'.op = "getReferenceRadius" => ret' = FromInt(EarthRadius)
           /\ (call'.op = "getPotential" /\ call'.arg = TwoRadiiAlongX)
              => DyClose(DyMul(Dy(ret'), Dy(FromInt(EarthRadius))),
                         Dy(ClaimedGravitationalParameter),
                         Dy(ClaimedGravitationalParameter)) ]_vars

\* C6, amended: after WGS-84 on a model with origin (0,0,0),
\* getReferenceRadius() returns exactly 6378137.0 and getPotential at
\* (2*6378137.0, 0, 0), a point at distance 2*6378137 from the origin,
\* returns the double 398600441800000 / 12756274.0.
WGS84PotentialOverTwoRadii ==
    [][ JustConfiguredWGS84
        => /\ call'.op = "getReferenceRadius" => ret' = FromInt(EarthRadius)
           /\ (call'.op = "getPotential" /\ call'.arg = TwoRadiiAlongX)
              => ret' = fpDiv(ClaimedGravitationalParameter,
                              FromInt(2 * EarthRadius)) ]_vars

\* The potential of the WGS-84 model was taken at two radii from its origin.
PotentialAtTwoRadii ==
    /\ call.op = "getPotential"
    /\ call.arg = TwoRadiiAlongX
    /\ this.positionOfOrigin_ = ZeroVector
    /\ PresetFields(this) = TabulatedConstants("earthWorldGeodeticSystem84")
    /\ fpLess(ret, fpDiv(ClaimedGravitationalParameter, FromInt(EarthRadius)))

\* position - origin in real numbers, and the square of its length
ExactDifference(position, origin) ==
    << DySub(Dy(position[1]), Dy(origin[1])),
       DySub(Dy(position[2]), Dy(origin[2])),
       DySub(Dy(position[3]), Dy(origin[3])) >>

ExactSquaredNorm(v) ==
    DyAdd(DyAdd(DyMul(v[1], v[1]), DyMul(v[2], v[2])), DyMul(v[3], v[3]))

ExactSquaredDistance(position, origin) ==
    ExactSquaredNorm(ExactDifference(position, origin))

\* farther - origin = 2 * (nearer - origin), in real numbers
TwiceAsFar(farther, nearer, origin) ==
    \A i \in 1..3 :
        DyEq(ExactDifference(farther, origin)[i],
             DyScale(ExactDifference(nearer, origin)[i], 1))

\* value = parameter / sqrt(squaredDistance) within floating tolerance:
\* the signs agree and value^2 * squaredDistance is parameter^2 within it
IsParameterOverDistance(value, parameter, squaredDistance) ==
    /\ value.cls = "fin"
    /\ value.neg = parameter.neg
    /\ DyClose(DyMul(DyMul(Dy(value), Dy(value)), squaredDistance),
               DyMul(Dy(parameter), Dy(parameter)),
               DyMul(Dy(parameter), Dy(parameter)))

\* C7: for a position that differs from the origin, getPotential returns
\* gravitationalParameter over the Euclidean distance between the position
\* and the origin (within floating tolerance); the result is strictly
\* positive when gravitationalParameter is; and at a position twice as far
\* from the origin in the same direction the result is half of it.
PotentialIsParameterOverDistance ==
    (/\ call.op = "getPotential"
     /\ ~DyIsZero(ExactSquaredDistance(call.arg, this.positionOfOrigin_)))
    => /\ IsParameterOverDistance(
              ret, this.gravitationalParameter_,
              ExactSquaredDistance(call.arg, this.positionOfOrigin_))
       /\ fpLess(Zero(FALSE), this.gravitationalParameter_)
          => fpLess(Zero(FALSE), ret)
       /\ \A farther \in Positions :
              TwiceAsFar(farther, call.arg, this.positionOfOrigin_)
              => fpMul(Two, getPotential(this, farther).ret) = ret

\* The potential of a positive parameter was taken about an origin away
\* from the zero point of the frame, at a position that has a query
\* position twice as far from that origin.
PotentialAboutMovedOrigin ==
    /\ call.op = "getPotential"
    /\ this.positionOfOrigin_ # ZeroVector
    /\ fpLess(Zero(FALSE), this.gravitationalParameter_)
    /\ fpLess(Zero(FALSE), ret)
    /\ \E farther \in Positions :
           TwiceAsFar(farther, call.arg, this.positionOfOrigin_)

\* entry [i][j] equals entry [j][i], as operator== of double compares
SymmetricExactly(M) == \A i, j \in 1..3 : fpEq(M[i][j], M[j][i])

\* M.trace( ) in doubles, and the sum of the diagonal in real numbers
fpTrace(M) == fpAdd(fpAdd(M[1][1], M[2][2]), M[3][3])

ExactTrace(M) == DyAdd(DyAdd(Dy(M[1][1]), Dy(M[2][2])), Dy(M[3][3]))

\* the largest magnitude among the entries of M
LargestEntry(M) ==
    LET entries == { DyAbs(Dy(M[i][j])) : i \in 1..3, j \in 1..3 }
    IN  CHOOSE x \in entries : \A y \in entries : DyLeq(y, x)

\* the relative position is not the zero vector
NonzeroRelativePosition(obj) == \E i \in 1..3 : ~IsZero(obj.relativePosition_[i])

\* C8, as the claim states it: for a nonzero relative position the matrix
\* getGradientTensorOfPotential returns is symmetric, entry [i][j] equal to
\* entry [j][i], and its trace is exactly zero (whether the trace is summed
\* in doubles or in real numbers).
TensorSymmetricAndTraceless ==
    (call.op = "getGradientTensorOfPotential" /\ NonzeroRelativePosition(this))
    => /\ SymmetricExactly(ret)
       /\ IsZero(fpTrace(ret)) \/ DyIsZero(ExactTrace(ret))

\* C8, amended: for a nonzero relative position the matrix
\* getGradientTensorOfPotential returns is symmetric and traceless within
\* floating tolerance: entries [i][j] and [j][i], and the trace and zero,
\* differ by at most 2^-45 of the largest magnitude among the entries.
TensorSymmetricAndTracelessWithinTolerance ==
    (call.op = "getGradientTensorOfPotential" /\ NonzeroRelativePosition(this))
    => /\ \A i, j \in 1..3 :
              DyClose(Dy(ret[i][j]), Dy(ret[j][i]), LargestEntry(ret))
       /\ DyClose(ExactTrace(ret), Dy(Zero(FALSE)), LargestEntry(ret))

\* A tensor was returned whose entries [1][2] and [2][1] differ in their
\* last bits and whose diagonal does not sum to zero.
TensorWithRoundingResidue ==
    /\ call.op = "getGradientTensorOfPotential"
    /\ NonzeroRelativePosition(this)
    /\ ~fpEq(ret[1][2], ret[2][1])
    /\ ~DyIsZero(ExactTrace(ret))
    /\ ~IsZero(fpTrace(ret))

\* values of referenceRadius, degree, order and <<J2, J3, J4>>
OtherFields ==
    { Zero(TRUE), FromInt(-1), FromInt(EarthRadius) }
    \X { 0, 2 } \X { 0, 2 }
    \X { << Zero(TRUE), Zero(TRUE), Zero(TRUE) >>,
         SubSeq(TabulatedConstants("earthWorldGeodeticSystem72"), 3, 5),
         SubSeq(TabulatedConstants("earthWorldGeodeticSystem84"), 3, 5) }

\* obj with the six fields replaced
WithOtherFields(obj, f) ==
    [obj EXCEPT !.referenceRadius_ = f[1],
                !.degreeOfExpansion_ = f[2],
                !.orderOfExpansion_ = f[3],
                !.j2SphericalHarmonicsGravityFieldCoefficient_ = f[4][1],
                !.j3SphericalHarmonicsGravityFieldCoefficient_ = f[4][2],
                !.j4SphericalHarmonicsGravityFieldCoefficient_ = f[4][3]]

\* C9: a model that agrees with this one on gravitationalParameter and
\* origin and differs from it in any way in referenceRadius, degree, order,
\* J2, J3 and J4 returns from getPotential, getGradientOfPotential and
\* getGradientTensorOfPotential, for the same query position, the result
\* this one returned.
ResultsIgnoreOtherFields ==
    call.op \in EvaluationCalls
    => \A f \in OtherFields :
           Evaluate(call.op, WithOtherFields(this, f), call.arg).ret = ret

\* An evaluation returned on a model whose six fields had all been set, to
\* values another model in the comparison does not share.
EvaluationWithFieldsSet ==
    /\ call.op = "getGradientTensorOfPotential"
    /\ this.referenceRadius_ = FromInt(-1)
    /\ this.degreeOfExpansion_ = 2
    /\ this.orderOfExpansion_ = 2
    /\ this.j2SphericalHarmonicsGravityFieldCoefficient_
           = TabulatedConstants("earthWorldGeodeticSystem72")[3]
    /\ \E f \in OtherFields :
           /\ f[1] # this.referenceRadius_
           /\ f[2] # this.degreeOfExpansion_
           /\ f[3] # this.orderOfExpansion_
           /\ f[4][1] # this.j2SphericalHarmonicsGravityFieldCoefficient_

\* C10: every evaluation call assigns relativePosition from its query
\* position and the origin before reading it, so what it returns is what it
\* would return whatever relative position the calls before it had left.
ResultsIgnoreEarlierEvaluations ==
    call.op \in EvaluationCalls
    => /\ this.relativePosition_ = VecSub(call.arg, this.positionOfOrigin_)
       /\ \A left \in RelativePositions :
              Evaluate(call.op, [this EXCEPT !.relativePosition_ = left],
                       call.arg).ret = ret

\* An evaluation returned after the relative position had been left by an
\* earlier evaluation at another position, about another origin.
EvaluationAfterEvaluation ==
    /\ call.op = "getPotential"
    /\ call.arg = Vec(FromInt(2), FromInt(4), FromInt(6))
    /\ this.positionOfOrigin_ # ZeroVector
    /\ this.relativePosition_ = Vec(FromInt(-1), FromInt(-2), FromInt(-3))
    /\ ret = potentialExpression(this.gravitationalParameter_,
                                 Vec(FromInt(1), FromInt(2), FromInt(3)))

\* C5, as the claim states it: when two threads run evaluation methods on
\* one model and no configuration call runs, under every interleaving each
\* call returns what it would return if run alone for its query position.
ConcurrentEvaluationsReturnAsAlone ==
    \A t \in Threads :
        threads[t].pc = "returned"
        => threads[t].result
               = Evaluate(threads[t].op, this, threads[t].position).ret

\* Both threads have returned from evaluations at different positions, and
\* one of them with a result that belongs to neither position: it read
\* coefficients of both.
ThreadReturnedMixedResult ==
    /\ \A t \in Threads : threads[t].pc = "returned"
    /\ threads["A"].position # threads["B"].position
    /\ \E t \in Threads :
           \A position \in ThreadPositions :
               threads[t].result
                   # Evaluate(threads[t].op, this, position).ret

====
